---- MODULE Spec2Model ----
(***************************************************************************)
(* A model of ghostpen's backend: the grammar adapter (lib.rs), the local  *)
(* LLM provider detection, prompt building, response parsing and rewrite   *)
(* pipeline (llm.rs) and the fire-and-forget audit log (audit.rs).         *)
(*                                                                         *)
(* Rust strings are modelled as sequences of characters, each character a  *)
(* one-element TLA+ string.  All prompt templates, delimiters and labels   *)
(* are ASCII except one em dash, written EM_DASH.                          *)
(***************************************************************************)
EXTENDS Integers, Sequences, FiniteSets, TLC

\* ------------------------------------------------------------------------
\* Bounds of the model
\* ------------------------------------------------------------------------
\* number of fragments a raw completion is assembled from (SpecParse)
MaxPieces == 3
\* number of characters of a user text handed to build_prompt (SpecPrompt)
MaxTextLen == 2
\* largest byte offset of a span the linter reports (SpecGrammar)
MaxOffset == 2
\* number of lints the linter reports for a text (SpecGrammar)
MaxLints == 2
\* number of audit entries, written or about to be, beyond which no further
\* command is invoked (Spec, SpecCalls, SpecLive)
MaxAuditEntries == 2

\* ------------------------------------------------------------------------
\* str helpers (Rust core::str as used by llm.rs)
\* ------------------------------------------------------------------------
\* Option::None of str::find
NotFound == -1

EM_DASH == "EM_DASH"

\* char::is_whitespace, restricted to the whitespace the model's texts use
IsWhitespace(c) == c \in {" ", "\n", "\t", "\r"}

\* str::trim_start
TrimStart(s) ==
  LET k == CHOOSE n \in 0..Len(s) :
              /\ \A i \in 1..n : IsWhitespace(s[i])
              /\ (n = Len(s) \/ ~IsWhitespace(s[n + 1]))
  IN SubSeq(s, k + 1, Len(s))

\* str::trim_end
TrimEnd(s) ==
  LET k == CHOOSE n \in 0..Len(s) :
              /\ \A i \in (n + 1)..Len(s) : IsWhitespace(s[i])
              /\ (n = 0 \/ ~IsWhitespace(s[n]))
  IN SubSeq(s, 1, k)

\* str::trim
Trim(s) == TrimEnd(TrimStart(s))

\* pat occurs in s at the 0-based offset i
MatchesAt(s, pat, i) ==
  /\ i >= 0
  /\ i + Len(pat) <= Len(s)
  /\ \A j \in 1..Len(pat) : s[i + j] = pat[j]

\* str::find: the 0-based offset of the first occurrence of pat, or NotFound
Find(s, pat) ==
  IF \E i \in 0..(Len(s) - Len(pat)) : MatchesAt(s, pat, i)
  THEN CHOOSE i \in 0..(Len(s) - Len(pat)) :
         /\ MatchesAt(s, pat, i)
         /\ \A j \in 0..(i - 1) : ~MatchesAt(s, pat, j)
  ELSE NotFound

\* str::contains
Contains(s, pat) == Find(s, pat) # NotFound

\* str::strip_prefix(p).is_some()
StartsWith(s, p) == MatchesAt(s, p, 0)

\* the value inside str::strip_prefix(p) when it is Some
DropPrefix(s, p) == SubSeq(s, Len(p) + 1, Len(s))

\* ------------------------------------------------------------------------
\* llm.rs: parse_response
\* ------------------------------------------------------------------------
DELIM_EXPLANATION == <<"E","X","P","L","A","N","A","T","I","O","N",":">>
DELIM_MD_EXPLANATION == <<"*","*","E","x","p","l","a","n","a","t","i","o","n",":","*","*">>
DELIM_MD_WHY == <<"*","*","W","h","y",":","*","*">>
DELIM_RULE == <<"-","-","-">>
DELIM_MD_CHANGES == <<"\n","\n","*","*","C","h","a","n","g","e","s">>

\* the delimiter array of parse_response, in the order the loop visits it
Delimiters ==
  <<DELIM_EXPLANATION, DELIM_MD_EXPLANATION, DELIM_MD_WHY, DELIM_RULE, DELIM_MD_CHANGES>>

LABEL_REWRITE == <<"R","E","W","R","I","T","E",":">>
LABEL_MD_REWRITE == <<"*","*","R","e","w","r","i","t","e",":","*","*">>

\* rewrite.strip_prefix("REWRITE:").or_else(|| rewrite.strip_prefix("**Rewrite:**"))
\*        .unwrap_or(rewrite)
StripRewriteLabel(rewrite) ==
  IF StartsWith(rewrite, LABEL_REWRITE) THEN DropPrefix(rewrite, LABEL_REWRITE)
  ELSE IF StartsWith(rewrite, LABEL_MD_REWRITE) THEN DropPrefix(rewrite, LABEL_MD_REWRITE)
  ELSE rewrite

\* SplitAt with the explanation starting at the delimiter, not after it
SplitAt_KeepsDelimiter(full, delimiter, idx) ==
  LET rewrite == Trim(SubSeq(full, 1, idx))
      explain == Trim(SubSeq(full, idx + 1, Len(full)))
  IN [rewritten |-> Trim(StripRewriteLabel(rewrite)), explanation |-> explain]

\* the body of the `if let Some(idx)` branch for the delimiter found at idx
SplitAt(full, delimiter, idx) ==
  LET rewrite == Trim(SubSeq(full, 1, idx))
      explain == Trim(SubSeq(full, idx + Len(delimiter) + 1, Len(full)))
  IN [rewritten |-> Trim(StripRewriteLabel(rewrite)), explanation |-> explain]

\* NoDelimiter with the label stripping of the delimiter branch (both labels)
NoDelimiter_BothLabels(full) ==
  [rewritten |-> Trim(StripRewriteLabel(full)), explanation |-> <<>>]

\* the tail of parse_response: no delimiter was found
NoDelimiter(full) ==
  LET cleaned == Trim(IF StartsWith(full, LABEL_REWRITE)
                      THEN DropPrefix(full, LABEL_REWRITE)
                      ELSE full)
  IN [rewritten |-> cleaned, explanation |-> <<>>]

\* the for loop of parse_response from the k-th delimiter of the array on
RECURSIVE ParseFrom(_, _)
ParseFrom(full, k) ==
  IF k > Len(Delimiters) THEN NoDelimiter(full)
  ELSE LET idx == Find(full, Delimiters[k])
       IN IF idx # NotFound THEN SplitAt(full, Delimiters[k], idx)
          ELSE ParseFrom(full, k + 1)

\* parse_response splitting at the delimiter occurrence that is earliest in the text
parse_response_earliest(full) ==
  LET present == { k \in 1..Len(Delimiters) : Contains(full, Delimiters[k]) }
  IN IF present = {} THEN NoDelimiter(full)
     ELSE LET k == CHOOSE a \in present :
                     \A b \in present : Find(full, Delimiters[a]) <= Find(full, Delimiters[b])
          IN SplitAt(full, Delimiters[k], Find(full, Delimiters[k]))

parse_response(full) == ParseFrom(full, 1)

\* ------------------------------------------------------------------------
\* llm.rs: build_prompt
\* ------------------------------------------------------------------------
\* the format strings of build_prompt up to their {} placeholder
TEMPLATE_CLARITY ==
  <<
    "R","e","w","r","i","t","e"," ","t","h","i","s"," ","t","e","x","t"," ","f","o","r"," ","m",
    "a","x","i","m","u","m"," ","c","l","a","r","i","t","y","."," ","K","e","e","p"," ","t","h",
    "e"," ","m","e","a","n","i","n","g"," ","i","d","e","n","t","i","c","a","l",".","\n","\n",
    "F","i","r","s","t",","," ","p","r","o","v","i","d","e"," ","t","h","e"," ","r","e","w","r",
    "i","t","t","e","n"," ","t","e","x","t","."," ","T","h","e","n"," ","w","r","i","t","e"," ",
    "E","X","P","L","A","N","A","T","I","O","N",":"," ","f","o","l","l","o","w","e","d"," ","b",
    "y"," ","w","h","a","t"," ","y","o","u"," ","c","h","a","n","g","e","d"," ","a","n","d"," ",
    "w","h","y"," ","t","h","e"," ","w","r","i","t","e","r"," ","s","h","o","u","l","d"," ","c",
    "a","r","e"," ","(","t","e","a","c","h"," ","t","h","e","m",")",".","\n","\n","T","e","x",
    "t",":"," "
  >>

TEMPLATE_CONCISE ==
  <<
    "M","a","k","e"," ","t","h","i","s"," ","t","e","x","t"," ","m","o","r","e"," ","c","o","n",
    "c","i","s","e","."," ","C","u","t"," ","u","n","n","e","c","e","s","s","a","r","y"," ","w",
    "o","r","d","s"," ","w","i","t","h","o","u","t"," ","l","o","s","i","n","g"," ","m","e","a",
    "n","i","n","g",".","\n","\n","F","i","r","s","t",","," ","p","r","o","v","i","d","e"," ",
    "t","h","e"," ","r","e","w","r","i","t","t","e","n"," ","t","e","x","t","."," ","T","h","e",
    "n"," ","w","r","i","t","e"," ","E","X","P","L","A","N","A","T","I","O","N",":"," ","f","o",
    "l","l","o","w","e","d"," ","b","y"," ","w","h","a","t"," ","y","o","u"," ","c","u","t"," ",
    "a","n","d"," ","w","h","y"," ","i","t"," ","w","a","s"," ","u","n","n","e","c","e","s","s",
    "a","r","y"," ","(","t","e","a","c","h"," ","t","h","e"," ","w","r","i","t","e","r"," ","t",
    "o"," ","s","e","l","f","-","e","d","i","t",")",".","\n","\n","T","e","x","t",":"," "
  >>

TEMPLATE_FORMAL ==
  <<
    "R","e","w","r","i","t","e"," ","i","n"," ","a"," ","m","o","r","e"," ","f","o","r","m","a",
    "l",","," ","p","r","o","f","e","s","s","i","o","n","a","l"," ","t","o","n","e",".","\n",
    "\n","F","i","r","s","t",","," ","p","r","o","v","i","d","e"," ","t","h","e"," ","r","e",
    "w","r","i","t","t","e","n"," ","t","e","x","t","."," ","T","h","e","n"," ","w","r","i","t",
    "e"," ","E","X","P","L","A","N","A","T","I","O","N",":"," ","f","o","l","l","o","w","e","d",
    " ","b","y"," ","w","h","a","t"," ","t","o","n","e"," ","s","h","i","f","t","s"," ","y","o",
    "u"," ","m","a","d","e"," ","a","n","d"," ","w","h","e","n"," ","f","o","r","m","a","l"," ",
    "t","o","n","e"," ","m","a","t","t","e","r","s",".","\n","\n","T","e","x","t",":"," "
  >>

TEMPLATE_CASUAL ==
  <<
    "R","e","w","r","i","t","e"," ","i","n"," ","a"," ","m","o","r","e"," ","c","a","s","u","a",
    "l",","," ","c","o","n","v","e","r","s","a","t","i","o","n","a","l"," ","t","o","n","e",".",
    "\n","\n","F","i","r","s","t",","," ","p","r","o","v","i","d","e"," ","t","h","e"," ","r",
    "e","w","r","i","t","t","e","n"," ","t","e","x","t","."," ","T","h","e","n"," ","w","r","i",
    "t","e"," ","E","X","P","L","A","N","A","T","I","O","N",":"," ","f","o","l","l","o","w","e",
    "d"," ","b","y"," ","w","h","a","t"," ","y","o","u"," ","c","h","a","n","g","e","d"," ","t",
    "o"," ","m","a","k","e"," ","i","t"," ","m","o","r","e"," ","n","a","t","u","r","a","l",".",
    "\n","\n","T","e","x","t",":"," "
  >>

TEMPLATE_EXPLAIN ==
  <<
    "A","n","a","l","y","z","e"," ","t","h","i","s"," ","t","e","x","t"," ","a","s"," ","a"," ",
    "w","r","i","t","i","n","g"," ","c","o","a","c","h","."," ","I","d","e","n","t","i","f","y",
    " ","g","r","a","m","m","a","r"," ","i","s","s","u","e","s",","," ","u","n","c","l","e","a",
    "r"," ","p","h","r","a","s","i","n","g",","," ","a","n","d"," ","s","t","y","l","e"," ","p",
    "r","o","b","l","e","m","s","."," ","F","o","r"," ","e","a","c","h"," ","i","s","s","u","e",
    ","," ","e","x","p","l","a","i","n"," ","W","H","A","T"," ","i","s"," ","w","r","o","n","g",
    " ","a","n","d"," ","W","H","Y"," ","i","t"," ","m","a","t","t","e","r","s"," ",EM_DASH," ",
    "t","e","a","c","h"," ","t","h","e"," ","w","r","i","t","e","r",","," ","d","o","n","'","t",
    " ","j","u","s","t"," ","f","l","a","g",".","\n","\n","T","e","x","t",":"," "
  >>

TEMPLATE_FALLBACK ==
  <<
    "I","m","p","r","o","v","e"," ","t","h","i","s"," ","t","e","x","t"," ","f","o","r"," ","c",
    "l","a","r","i","t","y"," ","a","n","d"," ","c","o","r","r","e","c","t","n","e","s","s",".",
    "\n","\n","F","i","r","s","t",","," ","p","r","o","v","i","d","e"," ","t","h","e"," ","i",
    "m","p","r","o","v","e","d"," ","t","e","x","t","."," ","T","h","e","n"," ","w","r","i","t",
    "e"," ","E","X","P","L","A","N","A","T","I","O","N",":"," ","f","o","l","l","o","w","e","d",
    " ","b","y"," ","a"," ","b","r","i","e","f"," ","t","e","a","c","h","i","n","g"," ","n","o",
    "t","e",".","\n","\n","T","e","x","t",":"," "
  >>

\* build_prompt matching the mode without regard to case (to_lowercase of the
\* spellings the model's modes use)
build_prompt_caseless(text, mode) ==
  CASE mode \in {"clarity", "Clarity", "CLARITY"} -> TEMPLATE_CLARITY \o text
    [] mode = "concise" -> TEMPLATE_CONCISE \o text
    [] mode = "formal" -> TEMPLATE_FORMAL \o text
    [] mode = "casual" -> TEMPLATE_CASUAL \o text
    [] mode = "explain" -> TEMPLATE_EXPLAIN \o text
    [] OTHER -> TEMPLATE_FALLBACK \o text

\* build_prompt with the casual arm formatting the explain template
build_prompt_casual_as_explain(text, mode) ==
  CASE mode = "clarity" -> TEMPLATE_CLARITY \o text
    [] mode = "concise" -> TEMPLATE_CONCISE \o text
    [] mode = "formal" -> TEMPLATE_FORMAL \o text
    [] mode = "casual" -> TEMPLATE_EXPLAIN \o text
    [] mode = "explain" -> TEMPLATE_EXPLAIN \o text
    [] OTHER -> TEMPLATE_FALLBACK \o text

\* match mode { "clarity" => format!(..., text), ..., _ => format!(..., text) }
build_prompt(text, mode) ==
  CASE mode = "clarity" -> TEMPLATE_CLARITY \o text
    [] mode = "concise" -> TEMPLATE_CONCISE \o text
    [] mode = "formal" -> TEMPLATE_FORMAL \o text
    [] mode = "casual" -> TEMPLATE_CASUAL \o text
    [] mode = "explain" -> TEMPLATE_EXPLAIN \o text
    [] OTHER -> TEMPLATE_FALLBACK \o text

\* ------------------------------------------------------------------------
\* lib.rs: check_grammar
\* ------------------------------------------------------------------------
\* a character that takes two bytes in UTF-8 (every other character of the
\* model's texts takes one)
E_ACUTE == "E_ACUTE"

\* char::len_utf8
LenUtf8(c) == IF c = E_ACUTE THEN 2 ELSE 1

\* the byte offset at which the i-th character of text starts (i in 1..Len+1)
RECURSIVE ByteOffset(_, _)
ByteOffset(text, i) ==
  IF i <= 1 THEN 0 ELSE ByteOffset(text, i - 1) + LenUtf8(text[i - 1])

\* str::len: the length of text in bytes
ByteLen(text) == ByteOffset(text, Len(text) + 1)

\* str::is_char_boundary
IsCharBoundary(text, off) == \E i \in 1..(Len(text) + 1) : ByteOffset(text, i) = off

\* whether the index expression &text[start..end] panics
SlicePanics(text, start, end) ==
  \/ start > end
  \/ end > ByteLen(text)
  \/ ~IsCharBoundary(text, start)
  \/ ~IsCharBoundary(text, end)

\* &text[start..end] when it does not panic: the characters whose bytes lie in
\* [start, end)
Slice(text, start, end) ==
  LET first == CHOOSE i \in 1..(Len(text) + 1) : ByteOffset(text, i) = start
      last == CHOOSE i \in 1..(Len(text) + 1) : ByteOffset(text, i) = end
  IN SubSeq(text, first, last - 1)

\* the suggestion variants of harper_core::linting::Suggestion
ReplaceWith(chars) == [variant |-> "ReplaceWith", chars |-> chars]
InsertAfter(chars) == [variant |-> "InsertAfter", chars |-> chars]
Remove == [variant |-> "Remove", chars |-> <<>>]

\* the guard of original_span, off by one: end <= text.len() + 1
SpanInBounds_OffByOne(text, end) == end <= ByteLen(text) + 1

\* the guard of original_span: end <= text.len()
SpanInBounds(text, end) == end <= ByteLen(text)

\* whether computing original_span for the lint panics
OriginalSpanPanics(text, lint) ==
  SpanInBounds(text, lint.span.end) /\ SlicePanics(text, lint.span.start, lint.span.end)

\* original_span when computing it does not panic
OriginalSpan(text, lint) ==
  IF SpanInBounds(text, lint.span.end)
  THEN Slice(text, lint.span.start, lint.span.end)
  ELSE <<>>

\* the match inside filter_map with a Remove arm that yields None
ExpandSuggestion_DropsRemove(s, original_span) ==
  CASE s.variant = "ReplaceWith" -> <<s.chars>>
    [] s.variant = "InsertAfter" -> <<original_span \o s.chars>>
    [] s.variant = "Remove" -> <<>>

\* the match inside filter_map with an InsertAfter arm that forgets original_span
ExpandSuggestion_InsertAlone(s, original_span) ==
  CASE s.variant = "ReplaceWith" -> <<s.chars>>
    [] s.variant = "InsertAfter" -> <<s.chars>>
    [] s.variant = "Remove" -> << <<>> >>

\* the match inside filter_map: every variant yields Some(string)
ExpandSuggestion(s, original_span) ==
  CASE s.variant = "ReplaceWith" -> <<s.chars>>
    [] s.variant = "InsertAfter" -> <<original_span \o s.chars>>
    [] s.variant = "Remove" -> << <<>> >>

\* filter_map(...).collect() over lint.suggestions
RECURSIVE ExpandSuggestions(_, _)
ExpandSuggestions(suggestions, original_span) ==
  IF suggestions = <<>> THEN <<>>
  ELSE ExpandSuggestion(Head(suggestions), original_span)
         \o ExpandSuggestions(Tail(suggestions), original_span)

\* the closure of lints.iter().map(...): one GrammarIssue per lint
ToIssue(text, lint) ==
  [ start |-> lint.span.start,
    end |-> lint.span.end,
    message |-> lint.message,
    suggestions |-> ExpandSuggestions(lint.suggestions, OriginalSpan(text, lint)),
    severity |-> lint.lint_kind ]

\* text.split_whitespace().count()
WordCount(text) ==
  Cardinality({ i \in 1..Len(text) :
                  /\ ~IsWhitespace(text[i])
                  /\ (i = 1 \/ IsWhitespace(text[i - 1])) })

\* the count of terminal punctuation without .max(1)
SentenceCount_NoFloor(text) ==
  Cardinality({ i \in 1..Len(text) : text[i] \in {".", "!", "?"} })

\* text.chars().filter(|c| *c == '.' || *c == '!' || *c == '?').count().max(1)
SentenceCount(text) ==
  LET n == Cardinality({ i \in 1..Len(text) : text[i] \in {".", "!", "?"} })
  IN IF n >= 1 THEN n ELSE 1

\* check_grammar with a map closure that skips the lints without suggestions
check_grammar_SkipsBare(text, lints) ==
  IF \E i \in 1..Len(lints) : OriginalSpanPanics(text, lints[i])
  THEN [panicked |-> TRUE, issues |-> <<>>,
        stats |-> [word_count |-> 0, sentence_count |-> 0, issue_count |-> 0]]
  ELSE LET HasSuggestions(lint) == lint.suggestions # <<>>
           kept == SelectSeq(lints, HasSuggestions)
           issues == [i \in 1..Len(kept) |-> ToIssue(text, kept[i])]
       IN [panicked |-> FALSE,
           issues |-> issues,
           stats |-> [word_count |-> WordCount(text),
                      sentence_count |-> SentenceCount(text),
                      issue_count |-> Len(issues)]]

\* check_grammar on text, given the lints the linter reports for it: the
\* command panics when an index expression does, and returns a CheckResult
\* otherwise
check_grammar(text, lints) ==
  IF \E i \in 1..Len(lints) : OriginalSpanPanics(text, lints[i])
  THEN [panicked |-> TRUE, issues |-> <<>>,
        stats |-> [word_count |-> 0, sentence_count |-> 0, issue_count |-> 0]]
  ELSE LET issues == [i \in 1..Len(lints) |-> ToIssue(text, lints[i])]
       IN [panicked |-> FALSE,
           issues |-> issues,
           stats |-> [word_count |-> WordCount(text),
                      sentence_count |-> SentenceCount(text),
                      issue_count |-> Len(issues)]]

\* the details of the audit event check_grammar records (duration_ms left out)
GrammarAuditEvent(result) ==
  [event |-> "grammar_check",
   details |-> [word_count |-> result.stats.word_count,
                issue_count |-> result.stats.issue_count]]

\* ------------------------------------------------------------------------
\* llm.rs: provider detection, status and the rewrite pipeline
\* ------------------------------------------------------------------------
LMSTUDIO_URL == "http://127.0.0.1:1234"
OLLAMA_LOCAL_URL == "http://127.0.0.1:11434"
OLLAMA_MODEL == "qwen2.5:3b"
LMSTUDIO_MODEL == "default"

\* the two probe requests of detect_provider
LMSTUDIO_PROBE == [base |-> LMSTUDIO_URL, path |-> "/v1/models"]
OLLAMA_PROBE == [base |-> OLLAMA_LOCAL_URL, path |-> ""]

ERR_NO_SERVER == "No LLM server found. Install Ollama or LM Studio."
\* the messages of the two kinds of reqwest::Error rewrite can propagate
ERR_SEND == "error sending request"
ERR_DECODE == "error decoding response body"

SYSTEM_PROMPT == "You are a writing assistant. You help improve text while preserving the writer's voice. Always explain WHY you made changes so the writer learns. Be concise."

\* what a GET to a probe endpoint can come to: a success status, a non-success
\* status, a connection error, or no answer within the probe's timeout
ProbeOutcomes == {"success", "http_error", "refused", "timeout"}

\* a probe counted as success although the response status is not a success
ProbeSucceeded_AnyResponse(outcome) == outcome \in {"success", "http_error"}

\* if let Ok(resp) = ...send().await { if resp.status().is_success() { ... } }
ProbeSucceeded(outcome) == outcome = "success"

\* the values detect_provider returns
DetectedLmStudio ==
  [ok |-> TRUE, provider |-> "LmStudio", base_url |-> LMSTUDIO_URL, error |-> ""]
DetectedOllama ==
  [ok |-> TRUE, provider |-> "Ollama", base_url |-> OLLAMA_LOCAL_URL, error |-> ""]
DetectFailed ==
  [ok |-> FALSE, provider |-> "", base_url |-> "", error |-> ERR_NO_SERVER]
NotDetected ==
  [ok |-> FALSE, provider |-> "", base_url |-> "", error |-> "pending"]

\* detect_provider after the LM Studio probe: falls through to the Ollama probe
\* even when LM Studio answered
AfterLmStudioProbe_NoShortCircuit(outcome) == <<>>

\* detect_provider after the LM Studio probe has completed: <<result>> when it
\* returns, <<>> when it goes on to the Ollama probe
AfterLmStudioProbe(outcome) ==
  IF ProbeSucceeded(outcome) THEN <<DetectedLmStudio>> ELSE <<>>

\* detect_provider after the Ollama probe has completed
AfterOllamaProbe(outcome) ==
  IF ProbeSucceeded(outcome) THEN DetectedOllama ELSE DetectFailed

LlmStatus(available, provider, model) ==
  [available |-> available, provider |-> provider, model |-> model]

Ok(value) == [ok |-> TRUE, value |-> <<value>>, error |-> ""]
Err(message) == [ok |-> FALSE, value |-> <<>>, error |-> message]

\* check_status reporting LM Studio's model for Ollama
check_status_WrongModel(d) ==
  IF d.ok /\ d.provider = "Ollama" THEN Ok(LlmStatus(TRUE, "Ollama", LMSTUDIO_MODEL))
  ELSE IF d.ok /\ d.provider = "LmStudio" THEN Ok(LlmStatus(TRUE, "LM Studio", LMSTUDIO_MODEL))
  ELSE Ok(LlmStatus(FALSE, "none", ""))

\* check_status propagating the detection error to its caller
check_status_propagating(d) ==
  IF d.ok /\ d.provider = "Ollama" THEN Ok(LlmStatus(TRUE, "Ollama", OLLAMA_MODEL))
  ELSE IF d.ok /\ d.provider = "LmStudio" THEN Ok(LlmStatus(TRUE, "LM Studio", LMSTUDIO_MODEL))
  ELSE Err(d.error)

\* check_status: the match on the result d of detect_provider
check_status(d) ==
  IF d.ok /\ d.provider = "Ollama" THEN Ok(LlmStatus(TRUE, "Ollama", OLLAMA_MODEL))
  ELSE IF d.ok /\ d.provider = "LmStudio" THEN Ok(LlmStatus(TRUE, "LM Studio", LMSTUDIO_MODEL))
  ELSE Ok(LlmStatus(FALSE, "none", ""))

\* rewrite: the model name without the match on the provider
ModelOf_AlwaysDefault(provider) == LMSTUDIO_MODEL

\* rewrite: let model = match provider { ... }
ModelOf(provider) == IF provider = "Ollama" THEN OLLAMA_MODEL ELSE LMSTUDIO_MODEL

\* rewrite: let api_url = match provider { ... }
ApiUrl(provider, base_url) == [base |-> base_url, path |-> "/v1/chat/completions"]

\* the POST rewrite sends for the detection result d
ChatRequest(d, text, mode) ==
  [ url |-> ApiUrl(d.provider, d.base_url),
    model |-> ModelOf(d.provider),
    messages |-> << [role |-> "system", content |-> SYSTEM_PROMPT],
                    [role |-> "user", content |-> build_prompt(text, mode)] >>,
    stream |-> FALSE,
    temperature |-> "0.3" ]

\* rewrite: `let (provider, base_url) = detect_provider().await?` with the error
\* swallowed and LM Studio assumed
RewriteProceeds_Always(d) == TRUE

\* rewrite: `let (provider, base_url) = detect_provider().await?` goes on only
\* when detection returned Ok
RewriteProceeds(d) == d.ok

\* rewrite from the decoded ChatResponse on: choices is the list of the
\* contents of the choices' messages
RewriteResult(choices) ==
  LET full == IF choices = <<>> THEN <<>> ELSE Trim(choices[1])
      parsed == parse_response(full)
  IN [rewritten |-> parsed.rewritten, explanation |-> parsed.explanation]

\* ------------------------------------------------------------------------
\* lib.rs: the audit events of the commands
\* ------------------------------------------------------------------------
\* rewrite_text: the event recorded for the outcome `result`
RewriteAuditEvent(request, result) ==
  [event |-> "rewrite",
   details |-> [mode |-> request.mode,
                text_length |-> ByteLen(request.text),
                success |-> result.ok,
                provider |-> IF result.ok THEN "detected" ELSE result.error]]

\* check_llm_status: the event recorded for an Ok status
StatusAuditEvent(status) ==
  [event |-> "llm_status_check",
   details |-> [available |-> status.available, provider |-> status.provider]]

\* ------------------------------------------------------------------------
\* State
\* ------------------------------------------------------------------------
VARIABLES
  lmstudio,   \* environment: what a probe of LM Studio comes to right now
  ollama,     \* environment: what a probe of Ollama comes to right now
  completion, \* the raw completion: the content of the first choice of a
              \* server's answer, and the input of parse_response
  cmd,        \* the command in flight: "none", "rewrite" or "status"
  pc,         \* where the command in flight is suspended
  request,    \* the RewriteRequest of the command in flight
  steps,      \* the steps the command in flight has taken, in order
  probes,     \* the probes of the command in flight that have completed
  detected,   \* what detect_provider returned to the command in flight
  sent,       \* the chat-completion requests the command in flight has sent
  received,   \* <<>>, or <<choices>> once a ChatResponse has been decoded
  ret,        \* <<>>, or <<r>> once the command has returned r
  spawned,    \* the audit threads spawned by log_event that have not finished
  auditLog,   \* audit.jsonl: its lines, the last one not yet terminated
  p_out,      \* parse_response: <<>> before the call, <<result>> after it
  b_text,     \* build_prompt: the text handed to it
  b_mode,     \* build_prompt: the mode handed to it
  b_out,      \* build_prompt: <<>> before the call, <<prompt>> after it
  g_text,     \* check_grammar: the text handed to it
  g_lints,    \* check_grammar: the lints the linter reports for the text
  g_out       \* check_grammar: <<>> before the call, <<outcome>> after it

envVars == <<lmstudio, ollama, completion>>
callVars ==
  <<cmd, pc, request, steps, probes, detected, sent, received, ret>>
auditVars == <<spawned, auditLog>>
parseVars == <<p_out>>
promptVars == <<b_text, b_mode, b_out>>
grammarVars == <<g_text, g_lints, g_out>>

vars ==
  <<lmstudio, ollama, completion, cmd, pc, request, steps, probes, detected,
    sent, received, ret, spawned, auditLog, p_out, b_text, b_mode, b_out, g_text,
    g_lints, g_out>>

\* ------------------------------------------------------------------------
\* Input sets
\* ------------------------------------------------------------------------
\* completions used by the pipeline's servers
CONTENT_E2E ==
  <<
    "F","i","x","e","d"," ","t","e","x","t",".","\n","\n","*","*","E","x","p","l","a","n","a",
    "t","i","o","n",":","*","*"," ","c","l","e","a","r","e","r"," ","w","o","r","d","i","n","g"
  >>

CONTENT_SPEC ==
  <<
    "R","e","w","r","i","t","t","e","n"," ","s","e","n","t","e","n","c","e",".","\n","E","X",
    "P","L","A","N","A","T","I","O","N",":"," ","b","e","c","a","u","s","e"," ","c","l","a","r",
    "i","t","y"
  >>

CONTENT_PLAIN ==
  <<
    "J","u","s","t"," ","s","o","m","e"," ","t","e","x","t"," ","w","i","t","h"," ","n","o"," ",
    "m","a","r","k","e","r"
  >>


RECURSIVE Concat(_)
Concat(ps) == IF ps = <<>> THEN <<>> ELSE Head(ps) \o Concat(Tail(ps))

\* what the raw completions of SpecParse are assembled from: every delimiter,
\* both rewrite labels, whitespace, a letter and a dash
Fragments ==
  { DELIM_EXPLANATION, DELIM_MD_EXPLANATION, DELIM_MD_WHY, DELIM_RULE, DELIM_MD_CHANGES,
    LABEL_REWRITE, LABEL_MD_REWRITE, <<" ">>, <<"x">>, <<"-">> }

ParseInputs ==
  { Concat(ps) : ps \in UNION { [1..n -> Fragments] : n \in 0..MaxPieces } }

\* the requests handed to rewrite_text
Requests ==
  { [text |-> <<"s","o","m","e"," ","t","e","x","t">>, mode |-> "clarity"],
    [text |-> <<E_ACUTE>>, mode |-> "unknown_mode"] }

\* the mode strings handed to build_prompt
RecognizedModes == { "clarity", "concise", "formal", "casual", "explain" }
PromptModes ==
  RecognizedModes \cup { "", "Clarity", "CLARITY", "unknown_mode", "explain " }

\* the characters of the texts handed to build_prompt
PromptAlphabet == { "a", " ", "\n", "-" }
PromptTexts == UNION { [1..n -> PromptAlphabet] : n \in 0..MaxTextLen }

\* the texts handed to check_grammar
GrammarTexts ==
  { <<>>, <<"a">>, <<E_ACUTE>>, <<"a", ".">>, <<E_ACUTE, "?">>, <<"a", E_ACUTE, "!">>,
    <<"a", " ", "a">>, <<" ", ".", " ", "?">> }

\* the spans, suggestion lists and lints the linter may report
Spans == { [start |-> s, end |-> e] : s \in 0..MaxOffset, e \in 0..MaxOffset }
SuggestionLists ==
  { <<>>, <<ReplaceWith(<<"b">>), Remove, InsertAfter(<<"c">>)>> }
Lints ==
  { [span |-> sp, message |-> "msg", suggestions |-> sg, lint_kind |-> "Spelling"] :
      sp \in Spans, sg \in SuggestionLists }
LintLists == UNION { [1..n -> Lints] : n \in 0..MaxLints }

\* ------------------------------------------------------------------------
\* Initial conditions of the components
\* ------------------------------------------------------------------------
CallIdle ==
  /\ cmd = "none"
  /\ pc = "idle"
  /\ request = [text |-> <<>>, mode |-> ""]
  /\ steps = <<>>
  /\ probes = <<>>
  /\ detected = NotDetected
  /\ sent = <<>>
  /\ received = <<>>
  /\ ret = <<>>

AuditIdle == spawned = <<>> /\ auditLog = << <<>> >>

ServersDown == lmstudio = "refused" /\ ollama = "refused"

ParseIdle == p_out = <<>>
PromptIdle == b_text = <<>> /\ b_mode = "" /\ b_out = <<>>
GrammarIdle == g_text = <<>> /\ g_lints = <<>> /\ g_out = <<>>

\* ------------------------------------------------------------------------
\* audit.rs: log_event and the thread it spawns
\* ------------------------------------------------------------------------
\* log_event: spawn a thread that will append the entry, and return
log_event(entry) == spawned' = Append(spawned, [entry |-> entry, stage |-> "spawned"])

RemoveAt(s, i) == SubSeq(s, 1, i - 1) \o SubSeq(s, i + 1, Len(s))

\* the entries that are in the log or that a spawned thread has yet to write
RECURSIVE EntriesIn(_)
EntriesIn(lines) ==
  IF lines = <<>> THEN 0 ELSE Len(Head(lines)) + EntriesIn(Tail(lines))

AuditEntries ==
  EntriesIn(auditLog)
    + Cardinality({ i \in 1..Len(spawned) : spawned[i].stage = "spawned" })

\* writeln!(file, "{}", json), first write: a spawned thread has opened the
\* log for appending and appends the JSON of its entry
AuditThreadWritesEntry ==
  \E i \in 1..Len(spawned) :
    /\ spawned[i].stage = "spawned"
    /\ auditLog' = [auditLog EXCEPT ![Len(auditLog)] = Append(@, spawned[i].entry)]
    /\ spawned' = [spawned EXCEPT ![i].stage = "entry_written"]
    /\ UNCHANGED <<envVars, callVars, parseVars, promptVars, grammarVars>>

\* writeln!(file, "{}", json), second write: the thread appends the newline
\* that ends the line, and finishes
AuditThreadWritesNewline ==
  \E i \in 1..Len(spawned) :
    /\ spawned[i].stage = "entry_written"
    /\ auditLog' = Append(auditLog, <<>>)
    /\ spawned' = RemoveAt(spawned, i)
    /\ UNCHANGED <<envVars, callVars, parseVars, promptVars, grammarVars>>

\* a spawned thread fails to serialize, to open the log or to write, and ends
\* silently
AuditThreadFails ==
  \E i \in 1..Len(spawned) :
    /\ spawned' = RemoveAt(spawned, i)
    /\ UNCHANGED <<auditLog, envVars, callVars, parseVars, promptVars, grammarVars>>

\* ------------------------------------------------------------------------
\* The commands rewrite_text and check_llm_status, one step per await
\* ------------------------------------------------------------------------
\* a command is invoked: detect_provider sends the LM Studio probe and awaits
StartCommand(c, req) ==
  /\ pc = "idle"
  /\ AuditEntries < MaxAuditEntries
  /\ cmd' = c
  /\ request' = req
  /\ steps' = <<"probe_lmstudio">>
  /\ probes' = <<>>
  /\ detected' = NotDetected
  /\ sent' = <<>>
  /\ received' = <<>>
  /\ ret' = <<>>
  /\ pc' = "probe_lmstudio"
  /\ UNCHANGED <<envVars, auditVars, parseVars, promptVars, grammarVars>>

\* rewrite_text(request)
StartRewriteText == \E req \in Requests : StartCommand("rewrite", req)

\* check_llm_status()
StartCheckLlmStatus == StartCommand("status", [text |-> <<>>, mode |-> ""])

\* rewrite_text recording the outcome only when it is Ok, as check_llm_status
\* does
FinishRewriteText_LogsOnlyOk(r, done) ==
  /\ ret' = <<r>>
  /\ IF r.ok
     THEN /\ log_event(RewriteAuditEvent(request, r))
          /\ steps' = steps \o done \o <<"log_event", "return">>
     ELSE /\ UNCHANGED spawned
          /\ steps' = steps \o done \o <<"return">>
  /\ pc' = "returned"

\* rewrite_text from the return of llm::rewrite on: the outcome r, with an
\* error turned into its message, is recorded and returned unchanged; done are
\* the steps taken since the last await
FinishRewriteText(r, done) ==
  /\ ret' = <<r>>
  /\ log_event(RewriteAuditEvent(request, r))
  /\ steps' = steps \o done \o <<"log_event", "return">>
  /\ pc' = "returned"

\* check_llm_status from the return of llm::check_status on: the outcome r is
\* recorded when it is Ok, and returned unchanged
FinishCheckLlmStatus(r, done) ==
  /\ ret' = <<r>>
  /\ IF r.ok
     THEN /\ log_event(StatusAuditEvent(r.value[1]))
          /\ steps' = steps \o done \o <<"log_event", "return">>
     ELSE /\ UNCHANGED spawned
          /\ steps' = steps \o done \o <<"return">>
  /\ pc' = "returned"

\* the rest of the command with the prompt built before detection is awaited
Detected_PromptFirst(d) ==
  /\ detected' = d
  /\ IF cmd = "status"
     THEN /\ FinishCheckLlmStatus(check_status(d), <<"detect_done">>)
          /\ UNCHANGED sent
     ELSE IF RewriteProceeds(d)
     THEN /\ sent' = Append(sent, ChatRequest(d, request.text, request.mode))
          /\ steps' = steps \o <<"build_prompt", "detect_done", "send">>
          /\ pc' = "post"
          /\ UNCHANGED <<ret, spawned>>
     ELSE /\ FinishRewriteText(Err(d.error), <<"detect_done">>)
          /\ UNCHANGED sent

\* the rest of the command once detect_provider has returned d, up to the
\* next await or the return
Detected(d) ==
  /\ detected' = d
  /\ IF cmd = "status"
     THEN /\ FinishCheckLlmStatus(check_status(d), <<"detect_done">>)
          /\ UNCHANGED sent
     ELSE IF RewriteProceeds(d)
     THEN /\ sent' = Append(sent, ChatRequest(d, request.text, request.mode))
          /\ steps' = steps \o <<"detect_done", "build_prompt", "send">>
          /\ pc' = "post"
          /\ UNCHANGED <<ret, spawned>>
     ELSE /\ FinishRewriteText(Err(d.error), <<"detect_done">>)
          /\ UNCHANGED sent

\* the await of the LM Studio probe completes
LmStudioProbeCompletes ==
  /\ pc = "probe_lmstudio"
  /\ probes' = Append(probes, [target |-> LMSTUDIO_PROBE, outcome |-> lmstudio])
  /\ LET next == AfterLmStudioProbe(lmstudio)
     IN IF next # <<>>
        THEN Detected(next[1])
        ELSE /\ pc' = "probe_ollama"
             /\ steps' = Append(steps, "probe_ollama")
             /\ UNCHANGED <<detected, sent, ret, spawned>>
  /\ UNCHANGED <<envVars, cmd, request, received, auditLog,
                 parseVars, promptVars, grammarVars>>

\* the await of the Ollama probe completes
OllamaProbeCompletes ==
  /\ pc = "probe_ollama"
  /\ probes' = Append(probes, [target |-> OLLAMA_PROBE, outcome |-> ollama])
  /\ Detected(AfterOllamaProbe(ollama))
  /\ UNCHANGED <<envVars, cmd, request, received, auditLog,
                 parseVars, promptVars, grammarVars>>

\* the server a chat-completion request for the detection result d goes to
ServerOf(d) == IF d.provider = "LmStudio" THEN lmstudio ELSE ollama

\* the provider detection did not return
OtherProvider(d) == IF d.provider = "LmStudio" THEN DetectedOllama ELSE DetectedLmStudio

\* the await of send() with a failed request sent once more, to the other
\* provider
PostCompletes_FallsBack ==
  /\ pc = "post"
  /\ \E outcome \in {"refused", "timeout", "responded"} :
       IF outcome = "responded"
       THEN /\ pc' = "body"
            /\ UNCHANGED <<steps, ret, spawned, sent>>
       ELSE IF Len(sent) < 2
       THEN /\ sent' = Append(sent, ChatRequest(OtherProvider(detected),
                                                request.text, request.mode))
            /\ steps' = Append(steps, "send")
            /\ UNCHANGED <<pc, ret, spawned>>
       ELSE /\ FinishRewriteText(Err(ERR_SEND), <<>>)
            /\ UNCHANGED sent
  /\ UNCHANGED <<envVars, cmd, request, probes, detected, received, auditLog,
                 parseVars, promptVars, grammarVars>>

\* the await of send() without .timeout(): it completes only once the server
\* answers or refuses
PostCompletes_NoTimeout ==
  /\ pc = "post"
  /\ ServerOf(detected) # "timeout"
  /\ \E outcome \in {"refused", "responded"} :
       IF outcome = "responded"
       THEN /\ pc' = "body"
            /\ UNCHANGED <<steps, ret, spawned>>
       ELSE FinishRewriteText(Err(ERR_SEND), <<>>)
  /\ UNCHANGED <<envVars, cmd, request, probes, detected, sent, received, auditLog,
                 parseVars, promptVars, grammarVars>>

\* the await of send() completes: an error is propagated by `?`, a response
\* (of any status) goes on to the await of json()
PostCompletes ==
  /\ pc = "post"
  /\ \E outcome \in {"refused", "timeout", "responded"} :
       IF outcome = "responded"
       THEN /\ pc' = "body"
            /\ UNCHANGED <<steps, ret, spawned>>
       ELSE FinishRewriteText(Err(ERR_SEND), <<>>)
  /\ UNCHANGED <<envVars, cmd, request, probes, detected, sent, received, auditLog,
                 parseVars, promptVars, grammarVars>>

\* the await of json::<ChatResponse>() completes: an error (the body does not
\* arrive in time, or is not a ChatResponse) is propagated by `?`, a decoded
\* response is parsed and returned
BodyCompletes ==
  /\ pc = "body"
  /\ \/ \E outcome \in {"timeout", "malformed"} :
          /\ FinishRewriteText(Err(ERR_DECODE), <<>>)
          /\ UNCHANGED received
     \/ \E outcome \in {"no_choices", "choices"} :
          LET choices == IF outcome = "choices" THEN <<completion>> ELSE <<>>
          IN /\ received' = <<choices>>
             /\ FinishRewriteText(Ok(RewriteResult(choices)), <<"receive", "parse">>)
  /\ UNCHANGED <<envVars, cmd, request, probes, detected, sent, auditLog,
                 parseVars, promptVars, grammarVars>>

\* the caller has taken the result and the command's future is dropped: the
\* next command can be invoked
Return ==
  /\ pc = "returned"
  /\ pc' = "idle"
  /\ cmd' = "none"
  /\ request' = [text |-> <<>>, mode |-> ""]
  /\ steps' = <<>>
  /\ probes' = <<>>
  /\ detected' = NotDetected
  /\ sent' = <<>>
  /\ received' = <<>>
  /\ ret' = <<>>
  /\ UNCHANGED <<envVars, auditVars, parseVars, promptVars, grammarVars>>

\* LM Studio starts, stops, stalls or starts answering with an error status,
\* while a command is suspended at an await or no command is in flight
LmStudioChanges ==
  /\ pc # "returned"
  /\ \E o \in ProbeOutcomes \ {lmstudio} : lmstudio' = o
  /\ UNCHANGED <<ollama, completion, cmd, pc, request, steps, probes, detected, sent,
                 received, ret, auditVars, parseVars, promptVars, grammarVars>>

\* Ollama starts, stops, stalls or starts answering with an error status,
\* while a command is suspended at an await or no command is in flight
OllamaChanges ==
  /\ pc # "returned"
  /\ \E o \in ProbeOutcomes \ {ollama} : ollama' = o
  /\ UNCHANGED <<lmstudio, completion, cmd, pc, request, steps, probes, detected, sent,
                 received, ret, auditVars, parseVars, promptVars, grammarVars>>

Init ==
  /\ lmstudio \in ProbeOutcomes
  /\ ollama \in ProbeOutcomes
  /\ completion = CONTENT_E2E
  /\ CallIdle /\ AuditIdle /\ ParseIdle /\ PromptIdle /\ GrammarIdle

Next ==
  \/ StartRewriteText
  \/ StartCheckLlmStatus
  \/ LmStudioProbeCompletes
  \/ OllamaProbeCompletes
  \/ PostCompletes
  \/ BodyCompletes
  \/ Return
  \/ LmStudioChanges
  \/ OllamaChanges
  \/ AuditThreadWritesEntry
  \/ AuditThreadWritesNewline
  \/ AuditThreadFails

Spec == Init /\ [][Next]_vars

\* ------------------------------------------------------------------------
\* SpecCalls: the commands and the servers alone; the audit threads, which
\* take no part in a command's control flow, stay where log_event spawned
\* them. SpecLive adds the fairness the timeouts give.
\* ------------------------------------------------------------------------
NextCalls ==
  \/ StartRewriteText
  \/ StartCheckLlmStatus
  \/ LmStudioProbeCompletes
  \/ OllamaProbeCompletes
  \/ PostCompletes
  \/ BodyCompletes
  \/ Return
  \/ LmStudioChanges
  \/ OllamaChanges

SpecCalls == Init /\ [][NextCalls]_vars

\* every await of a command is bounded by a timeout (2 s for a probe, 180 s
\* for the completion request and its body), so a suspended command is resumed
Fairness ==
  /\ WF_vars(LmStudioProbeCompletes)
  /\ WF_vars(OllamaProbeCompletes)
  /\ WF_vars(PostCompletes)
  /\ WF_vars(BodyCompletes)

SpecLive == Init /\ [][NextCalls]_vars /\ Fairness

\* ------------------------------------------------------------------------
\* SpecParse: parse_response applied to bounded raw completions
\* ------------------------------------------------------------------------
CallParseResponse ==
  /\ p_out = <<>>
  /\ p_out' = <<parse_response(completion)>>
  /\ UNCHANGED <<envVars, callVars, auditVars, promptVars, grammarVars>>

InitParse ==
  /\ completion \in ParseInputs
  /\ p_out = <<>>
  /\ ServersDown /\ CallIdle /\ AuditIdle /\ PromptIdle /\ GrammarIdle

NextParse == CallParseResponse

SpecParse == InitParse /\ [][NextParse]_vars

\* ------------------------------------------------------------------------
\* SpecRewrite: one rewrite_text command against a reachable provider that
\* answers with a bounded raw completion, beside parse_response applied to
\* the same completion
\* ------------------------------------------------------------------------
InitRewrite ==
  /\ completion \in ParseInputs \cup {CONTENT_E2E, CONTENT_SPEC, CONTENT_PLAIN}
  /\ lmstudio \in {"success", "timeout"}
  /\ ollama = "success"
  /\ p_out = <<>>
  /\ CallIdle /\ AuditIdle /\ PromptIdle /\ GrammarIdle

StartOneRewrite ==
  /\ spawned = <<>>
  /\ StartCommand("rewrite", [text |-> <<"s","o","m","e"," ","t","e","x","t">>,
                              mode |-> "clarity"])

NextRewrite ==
  \/ CallParseResponse
  \/ StartOneRewrite
  \/ LmStudioProbeCompletes
  \/ OllamaProbeCompletes
  \/ PostCompletes
  \/ BodyCompletes

SpecRewrite == InitRewrite /\ [][NextRewrite]_vars

\* ------------------------------------------------------------------------
\* SpecPrompt: build_prompt applied to bounded texts and mode strings
\* ------------------------------------------------------------------------
CallBuildPrompt ==
  /\ b_out = <<>>
  /\ b_out' = <<build_prompt(b_text, b_mode)>>
  /\ UNCHANGED <<b_text, b_mode, envVars, callVars, auditVars, parseVars, grammarVars>>

InitPrompt ==
  /\ b_text \in PromptTexts
  /\ b_mode \in PromptModes
  /\ b_out = <<>>
  /\ ServersDown /\ completion = <<>> /\ CallIdle /\ AuditIdle /\ ParseIdle /\ GrammarIdle

NextPrompt == CallBuildPrompt

SpecPrompt == InitPrompt /\ [][NextPrompt]_vars

\* ------------------------------------------------------------------------
\* SpecGrammar: the check_grammar command on bounded texts and lints
\* ------------------------------------------------------------------------
\* check_grammar(text): a panic ends the command before log_event
CallCheckGrammar ==
  /\ g_out = <<>>
  /\ LET result == check_grammar(g_text, g_lints)
     IN /\ g_out' = <<result>>
        /\ IF result.panicked
           THEN UNCHANGED spawned
           ELSE log_event(GrammarAuditEvent(result))
  /\ UNCHANGED <<g_text, g_lints, auditLog, envVars, callVars, parseVars, promptVars>>

InitGrammar ==
  /\ g_text \in GrammarTexts
  /\ g_lints \in LintLists
  /\ g_out = <<>>
  /\ ServersDown /\ completion = <<>> /\ CallIdle /\ AuditIdle /\ ParseIdle /\ PromptIdle

NextGrammar ==
  \/ CallCheckGrammar
  \/ AuditThreadWritesEntry
  \/ AuditThreadWritesNewline
  \/ AuditThreadFails

SpecGrammar == InitGrammar /\ [][NextGrammar]_vars

\* ------------------------------------------------------------------------
\* Claims about detection, status and rewrite (SpecCalls)
\* ------------------------------------------------------------------------
\* C1: whenever both servers would answer their probe with success, the step in
\* which detection's first probe completes returns LM Studio with LM Studio's
\* base URL, in every call however many calls came before; Ollama is not
\* selected and no probe of Ollama is issued.
C1_BothUpSelectsLmStudio ==
  [][ ( /\ pc = "probe_lmstudio"
        /\ lmstudio = "success"
        /\ ollama = "success"
        /\ pc' # pc )
      => ( /\ detected'.ok
           /\ detected'.provider = "LmStudio"
           /\ detected'.base_url = "http://127.0.0.1:1234"
           /\ pc' # "probe_ollama"
           /\ "probe_ollama" \notin { steps'[i] : i \in 1..Len(steps') }
           /\ \A i \in 1..Len(probes') : probes'[i].target.base # "http://127.0.0.1:11434"
           /\ (cmd = "status" => ret'[1].value[1].provider = "LM Studio") ) ]_vars

\* a later call (an earlier one has left its audit entry) in which detection
\* has returned LM Studio with both servers up
C1_Witness ==
  /\ Len(spawned) + EntriesIn(auditLog) >= 1
  /\ cmd = "rewrite"
  /\ pc = "post"
  /\ lmstudio = "success"
  /\ ollama = "success"
  /\ detected.provider = "LmStudio"
  /\ Len(probes) = 1

\* both probes of the command in flight have completed and neither succeeded
NoProviderReachable ==
  /\ Len(probes) = 2
  /\ \A i \in 1..2 : probes[i].outcome # "success"

\* C2: when no provider is reachable, rewrite returns an error for every text
\* and mode, without sending a chat-completion request and without returning a
\* RewriteResult.
C2_NoProviderRewriteFails ==
  (cmd = "rewrite" /\ NoProviderReachable) =>
     /\ pc = "returned"
     /\ ret # <<>>
     /\ ~ret[1].ok
     /\ ret[1].error # ""
     /\ ret[1].value = <<>>
     /\ sent = <<>>
     /\ received = <<>>

\* a rewrite that returned after both probes failed, one by a timeout and one
\* by a non-success status
C2_Witness ==
  /\ cmd = "rewrite"
  /\ NoProviderReachable
  /\ probes[1].outcome = "timeout"
  /\ probes[2].outcome = "http_error"
  /\ request.mode = "unknown_mode"
  /\ ret # <<>>

\* C3: status never returns an error, whatever the probes come to; when
\* detection fails it returns Ok with {available: false, provider: "none",
\* model: ""}.
C3_StatusNeverFails ==
  (cmd = "status" /\ pc = "returned") =>
     /\ ret # <<>>
     /\ ret[1].ok
     /\ ret[1].error = ""
     /\ Len(ret[1].value) = 1
     /\ (NoProviderReachable =>
           ret[1].value[1] = [available |-> FALSE, provider |-> "none", model |-> ""])
     /\ (ret[1].value[1].available <=> ~NoProviderReachable)

\* a status call that returned after both probes failed
C3_Witness ==
  /\ cmd = "status"
  /\ pc = "returned"
  /\ NoProviderReachable
  /\ probes[1].outcome = "refused"
  /\ ret # <<>>

\* ------------------------------------------------------------------------
\* Claims about parse_response (SpecParse)
\* ------------------------------------------------------------------------
\* the indices of the delimiters that occur in s
PresentDelimiters(s) == { k \in 1..Len(Delimiters) : Contains(s, Delimiters[k]) }

\* every occurrence of a delimiter in s: <<index in Delimiters, 0-based offset>>
Occurrences(s) ==
  { <<k, i>> \in (1..Len(Delimiters)) \X (0..Len(s)) : MatchesAt(s, Delimiters[k], i) }

\* the occurrence that is earliest in the text
EarliestOccurrence(s) ==
  CHOOSE o \in Occurrences(s) : \A q \in Occurrences(s) : o[2] <= q[2]

\* the first occurrence of the delimiter that is first in the delimiter array
FirstListedOccurrence(s) ==
  LET k == CHOOSE a \in PresentDelimiters(s) : \A b \in PresentDelimiters(s) : a <= b
  IN <<k, Find(s, Delimiters[k])>>

Before(s, o) == SubSeq(s, 1, o[2])
After(s, o) == SubSeq(s, o[2] + Len(Delimiters[o[1]]) + 1, Len(s))

\* C4 as stated: with two different delimiters in the completion, the split is at
\* the delimiter occurring earliest in the text: the rewritten part comes from the
\* text before it and the explanation is everything after it.
C4_SplitsAtEarliestInText ==
  (p_out # <<>> /\ Cardinality(PresentDelimiters(completion)) >= 2) =>
     LET o == EarliestOccurrence(completion)
     IN /\ p_out[1].rewritten = Trim(StripRewriteLabel(Trim(Before(completion, o))))
        /\ p_out[1].explanation = Trim(After(completion, o))

\* C4 amended: with two different delimiters in the completion, the split is at the
\* first occurrence of the delimiter that comes first in the parser's delimiter
\* list, wherever the other delimiter occurs: the rewritten part comes from the
\* text before that occurrence and the explanation is everything after it.
C4_SplitsAtFirstListed ==
  (p_out # <<>> /\ Cardinality(PresentDelimiters(completion)) >= 2) =>
     LET o == FirstListedOccurrence(completion)
     IN /\ p_out[1].rewritten = Trim(StripRewriteLabel(Trim(Before(completion, o))))
        /\ p_out[1].explanation = Trim(After(completion, o))

\* a parsed completion in which a later-listed delimiter occurs before the
\* first-listed one
C4_Witness ==
  /\ p_out # <<>>
  /\ Cardinality(PresentDelimiters(completion)) >= 2
  /\ EarliestOccurrence(completion)[2] < FirstListedOccurrence(completion)[2]
  /\ p_out[1].rewritten # <<>>
  /\ p_out[1].explanation # <<>>

FIXED_TEXT ==
  <<
    "F","i","x","e","d"," ","t","e","x","t","."
  >>

CLEARER_WORDING ==
  <<
    "c","l","e","a","r","e","r"," ","w","o","r","d","i","n","g"
  >>

\* the goal the generic template states
GENERIC_GOAL ==
  <<
    "I","m","p","r","o","v","e"," ","t","h","i","s"," ","t","e","x","t"," ","f","o","r"," ","c",
    "l","a","r","i","t","y"," ","a","n","d"," ","c","o","r","r","e","c","t","n","e","s","s","."
  >>

\* how a template introduces the token the model is to emit
THEN_WRITE ==
  <<
    "T","h","e","n"," ","w","r","i","t","e"," "
  >>

\* s without one leading rewrite label (REWRITE: or **Rewrite:**)
WithoutLeadingLabel(s) ==
  IF Len(s) >= 8 /\ SubSeq(s, 1, 8) = <<"R","E","W","R","I","T","E",":">>
    THEN SubSeq(s, 9, Len(s))
  ELSE IF Len(s) >= 12
          /\ SubSeq(s, 1, 12) = <<"*","*","R","e","w","r","i","t","e",":","*","*">>
    THEN SubSeq(s, 13, Len(s))
  ELSE s

\* what C5 expects of a completion s with the single delimiter occurrence o
ExpectedSplit(s, o) ==
  [rewritten |-> Trim(WithoutLeadingLabel(Trim(Before(s, o)))),
   explanation |-> Trim(After(s, o))]

TheOccurrence(s) == CHOOSE o \in Occurrences(s) : TRUE

\* C5: for a raw completion with exactly one occurrence of a recognized
\* delimiter, parse_response returns the text before the delimiter, trimmed and
\* without a leading rewrite label, and the trimmed text after the delimiter;
\* and a rewrite whose provider answered with such a completion returns the
\* same split of the completion, which for the first choice
\* "Fixed text.\n\n**Explanation:** clearer wording" is "Fixed text." and
\* "clearer wording".
C5_SingleDelimiterSplit ==
  /\ (p_out # <<>> /\ Cardinality(Occurrences(completion)) = 1) =>
        p_out[1] = ExpectedSplit(completion, TheOccurrence(completion))
  /\ (cmd = "rewrite" /\ received # <<>> /\ received[1] # <<>>) =>
        /\ ret # <<>>
        /\ ret[1].ok
        /\ LET full == Trim(received[1][1])
           IN Cardinality(Occurrences(full)) = 1 =>
                ret[1].value[1] = ExpectedSplit(full, TheOccurrence(full))
        /\ (received[1][1] = CONTENT_E2E =>
              ret[1].value[1] = [rewritten |-> FIXED_TEXT, explanation |-> CLEARER_WORDING])

\* the end-to-end example has been parsed and returned by a rewrite that found
\* Ollama after LM Studio's probe timed out
C5_Witness ==
  /\ completion = CONTENT_E2E
  /\ p_out # <<>>
  /\ p_out[1].rewritten = FIXED_TEXT
  /\ cmd = "rewrite"
  /\ detected.provider = "Ollama"
  /\ ret # <<>>
  /\ ret[1].ok
  /\ ret[1].value[1].explanation = CLEARER_WORDING

\* ------------------------------------------------------------------------
\* Claims about build_prompt (SpecPrompt)
\* ------------------------------------------------------------------------
\* the prompt without the text it ends with: the template
TemplateOf(prompt, text) == SubSeq(prompt, 1, Len(prompt) - Len(text))

\* the template tells the model to write one of parse_response's delimiters
InstructsDelimiter(template) ==
  \E k \in 1..Len(Delimiters) : Contains(template, THEN_WRITE \o Delimiters[k])

\* C7 as stated: for every recognized mode and for the fallback, the prompt
\* instructs the model to emit a token that is one of the delimiters
\* parse_response recognizes.
C7_EveryTemplateNamesADelimiter ==
  b_out # <<>> => InstructsDelimiter(TemplateOf(b_out[1], b_text))

\* C7 amended: for the modes clarity, concise, formal and casual and for the
\* fallback, the prompt instructs the model to write EXPLANATION:, the first
\* delimiter parse_response recognizes; the template of the explain mode names
\* no delimiter at all.
C7_TemplatesButExplainNameADelimiter ==
  b_out # <<>> =>
     LET template == TemplateOf(b_out[1], b_text)
     IN IF b_mode = "explain"
        THEN \A k \in 1..Len(Delimiters) : ~Contains(template, Delimiters[k])
        ELSE /\ InstructsDelimiter(template)
             /\ Contains(template,
                         THEN_WRITE \o <<"E","X","P","L","A","N","A","T","I","O","N",":">>)
             /\ Delimiters[1] = <<"E","X","P","L","A","N","A","T","I","O","N",":">>

\* the prompt of the explain mode was built for a text
C7_Witness ==
  /\ b_out # <<>>
  /\ b_mode = "explain"
  /\ b_text # <<>>

\* C8: build_prompt returns a prompt for every text and mode string; the prompt
\* ends with the text, verbatim; the five recognized modes select five pairwise
\* distinct templates; every other mode string, the empty one and differently
\* cased spellings included, selects the one generic template, which states the
\* goal "Improve this text for clarity and correctness."
C8_PromptTotalAndFallback ==
  b_out # <<>> =>
     LET prompt == b_out[1]
         template == TemplateOf(prompt, b_text)
     IN /\ Len(prompt) > Len(b_text)
        /\ SubSeq(prompt, Len(prompt) - Len(b_text) + 1, Len(prompt)) = b_text
        /\ IF b_mode \in {"clarity", "concise", "formal", "casual", "explain"}
           THEN /\ \A m \in {"clarity", "concise", "formal", "casual", "explain"} \ {b_mode} :
                     TemplateOf(build_prompt(b_text, m), b_text) # template
                /\ ~Contains(template, GENERIC_GOAL)
           ELSE /\ Contains(template, GENERIC_GOAL)
                /\ template = TemplateOf(build_prompt(<<>>, "unknown_mode"), <<>>)

\* the prompt of a differently-cased spelling of a recognized mode was built
C8_Witness ==
  /\ b_out # <<>>
  /\ b_mode = "CLARITY"
  /\ Len(b_text) = 2

\* ------------------------------------------------------------------------
\* Claims about check_grammar (SpecGrammar)
\* ------------------------------------------------------------------------
\* the lints whose span ends beyond the text
BeyondText == { i \in 1..Len(g_lints) : g_lints[i].span.end > ByteLen(g_text) }

\* C9: a finding whose span ends beyond the text never makes check_grammar
\* fail: its original substring is the empty string (an insert-after
\* suggestion comes out as the inserted text alone) and its issue carries the
\* span's start and end unchanged.
C9_SpanBeyondTextIsEmpty ==
  g_out # <<>> =>
     /\ (BeyondText = 1..Len(g_lints) => ~g_out[1].panicked)
     /\ (g_out[1].panicked =>
           \E i \in (1..Len(g_lints)) \ BeyondText :
              SlicePanics(g_text, g_lints[i].span.start, g_lints[i].span.end))
     /\ (~g_out[1].panicked =>
           /\ Len(g_out[1].issues) = Len(g_lints)
           /\ \A i \in BeyondText :
                /\ g_out[1].issues[i].start = g_lints[i].span.start
                /\ g_out[1].issues[i].end = g_lints[i].span.end
                /\ \A j \in 1..Len(g_lints[i].suggestions) :
                     g_lints[i].suggestions[j].variant = "InsertAfter" =>
                        g_out[1].issues[i].suggestions[j] = g_lints[i].suggestions[j].chars)

\* a result for a non-empty text with two findings that end beyond it, one of
\* them starting beyond it too and carrying an insert-after suggestion
C9_Witness ==
  /\ g_out # <<>>
  /\ ~g_out[1].panicked
  /\ g_text # <<>>
  /\ Len(g_lints) = 2
  /\ BeyondText = {1, 2}
  /\ g_lints[1].span.start > ByteLen(g_text)
  /\ g_lints[1].suggestions # <<>>
  /\ g_lints[2].span.start = 0

\* C10: check_grammar returns a CheckResult for every text and every list of
\* findings, whatever their spans.
C10_CheckGrammarNeverAborts ==
  g_out # <<>> => ~g_out[1].panicked


\* ------------------------------------------------------------------------
\* Claims about the issues and statistics of check_grammar (SpecGrammar)
\* ------------------------------------------------------------------------
\* check_grammar has returned a CheckResult
Returned == g_out # <<>> /\ ~g_out[1].panicked

\* C11: in every CheckResult the suggestions of the issue of a finding are as
\* many as the finding's suggestions and in their order: the string at the
\* place of a replace-with variant is its replacement text, the string at the
\* place of a remove variant is the empty string, and the string at the place
\* of an insert-after variant ends with its inserted text.
C11_NormalizationTotalAndOrdered ==
  Returned =>
    \A i \in 1..Len(g_lints) :
      LET given == g_lints[i].suggestions
          out == g_out[1].issues[i].suggestions
      IN /\ Len(out) = Len(given)
         /\ \A j \in 1..Len(given) :
              /\ given[j].variant = "ReplaceWith" => out[j] = given[j].chars
              /\ given[j].variant = "Remove" => out[j] = <<>>
              /\ given[j].variant = "InsertAfter" =>
                   /\ Len(out[j]) >= Len(given[j].chars)
                   /\ SubSeq(out[j], Len(out[j]) - Len(given[j].chars) + 1, Len(out[j]))
                        = given[j].chars

\* a result whose two findings carry the three variants, remove in the middle
C11_Witness ==
  /\ Returned
  /\ Len(g_lints) = 2
  /\ \A i \in 1..2 :
       /\ Len(g_lints[i].suggestions) = 3
       /\ g_lints[i].suggestions[2].variant = "Remove"
       /\ Len(g_out[1].issues[i].suggestions) = 3
  /\ g_lints[1].span.end > g_lints[1].span.start

\* the characters of text whose bytes lie in [start, end), for any span
RECURSIVE FlaggedFrom(_, _, _, _)
FlaggedFrom(text, start, end, i) ==
  IF i > Len(text) THEN <<>>
  ELSE (IF ByteOffset(text, i) >= start /\ ByteOffset(text, i + 1) <= end
        THEN <<text[i]>> ELSE <<>>)
       \o FlaggedFrom(text, start, end, i + 1)

FlaggedChars(text, span) == FlaggedFrom(text, span.start, span.end, 1)

\* the insert-after suggestions of finding i, as places in its suggestion list
InsertAfters(i) ==
  { j \in 1..Len(g_lints[i].suggestions) : g_lints[i].suggestions[j].variant = "InsertAfter" }

\* C12 as stated: in every CheckResult the string of an insert-after
\* suggestion is the flagged characters of the text followed by the inserted
\* text, for every span, one that ends beyond the text included.
C12_InsertAfterKeepsFlaggedText ==
  Returned =>
    \A i \in 1..Len(g_lints) : \A j \in InsertAfters(i) :
      g_out[1].issues[i].suggestions[j]
        = FlaggedChars(g_text, g_lints[i].span) \o g_lints[i].suggestions[j].chars

\* C12, amended: in every CheckResult the string of an insert-after suggestion
\* is text[start..end] followed by the inserted text when the span ends
\* within the text, and the inserted text alone when the span ends beyond it.
C12_InsertAfterKeepsSpanWithinText ==
  Returned =>
    \A i \in 1..Len(g_lints) : \A j \in InsertAfters(i) :
      LET span == g_lints[i].span
          inserted == g_lints[i].suggestions[j].chars
          out == g_out[1].issues[i].suggestions[j]
      IN IF span.end <= ByteLen(g_text)
         THEN out = Slice(g_text, span.start, span.end) \o inserted
         ELSE out = inserted

\* a result with an insert-after suggestion on a non-empty span within the
\* text and another on a span that covers text and ends beyond it
C12_Witness ==
  /\ Returned
  /\ Len(g_lints) = 2
  /\ InsertAfters(1) # {} /\ InsertAfters(2) # {}
  /\ g_lints[1].span.start < g_lints[1].span.end
  /\ g_lints[1].span.end <= ByteLen(g_text)
  /\ g_lints[2].span.start < ByteLen(g_text)
  /\ g_lints[2].span.end > ByteLen(g_text)

\* the number of '.', '!' and '?' among the characters of text from i on
RECURSIVE TerminalsFrom(_, _)
TerminalsFrom(text, i) ==
  IF i > Len(text) THEN 0
  ELSE (IF text[i] = "." \/ text[i] = "!" \/ text[i] = "?" THEN 1 ELSE 0)
       + TerminalsFrom(text, i + 1)

\* the number of maximal runs of non-whitespace characters of text, counted
\* at their last characters
Tokens(text) ==
  Cardinality({ i \in 1..Len(text) :
                  /\ text[i] \notin {" ", "\n", "\t", "\r"}
                  /\ (i = Len(text) \/ text[i + 1] \in {" ", "\n", "\t", "\r"}) })

\* C13: in every CheckResult sentence_count is the number of '.', '!' and '?'
\* of the text, or 1 when there are none, and word_count is the number of its
\* whitespace-delimited tokens, whatever the findings.
C13_StatsFromTextAlone ==
  Returned =>
    LET n == TerminalsFrom(g_text, 1)
    IN /\ g_out[1].stats.sentence_count = (IF n > 1 THEN n ELSE 1)
       /\ g_out[1].stats.sentence_count >= 1
       /\ g_out[1].stats.word_count = Tokens(g_text)

\* a result for a text of two words and no terminal punctuation, with findings
C13_Witness ==
  /\ Returned
  /\ g_lints # <<>>
  /\ TerminalsFrom(g_text, 1) = 0
  /\ g_out[1].stats.sentence_count = 1
  /\ g_out[1].stats.word_count = 2

\* C14: in every CheckResult issue_count is the length of the issues list and
\* the number of findings, the i-th issue being that of the i-th finding; with
\* no findings the list is empty and issue_count is 0.
C14_OneIssuePerFinding ==
  Returned =>
    /\ g_out[1].stats.issue_count = Len(g_out[1].issues)
    /\ Len(g_out[1].issues) = Len(g_lints)
    /\ \A i \in 1..Len(g_lints) :
         /\ g_out[1].issues[i].start = g_lints[i].span.start
         /\ g_out[1].issues[i].end = g_lints[i].span.end
         /\ g_out[1].issues[i].message = g_lints[i].message
    /\ (g_lints = <<>> => g_out[1].issues = <<>> /\ g_out[1].stats.issue_count = 0)

\* a result with two findings, the first of them without suggestions
C14_Witness ==
  /\ Returned
  /\ Len(g_lints) = 2
  /\ g_lints[1].suggestions = <<>>
  /\ g_lints[1].span # g_lints[2].span
  /\ g_out[1].stats.issue_count = 2

\* ------------------------------------------------------------------------
\* Claims about failures, ordering, auditing and termination (SpecCalls, Spec,
\* SpecLive)
\* ------------------------------------------------------------------------
\* C15: once detection has selected a provider in a rewrite call, at most one
\* completion request is sent in the call, to the selected provider, and when
\* the request fails (no response, or no body that decodes) the call returns
\* an error without another request, whatever the other provider's state.
C15_CompletionFailureIsTerminal ==
  /\ Len(sent) <= 1
  /\ \A k \in 1..Len(sent) :
       /\ detected.ok
       /\ sent[k].url.base = detected.base_url
  /\ (cmd = "rewrite" /\ pc = "returned" /\ detected.ok /\ received = <<>>) =>
       /\ ~ret[1].ok
       /\ ret[1].value = <<>>
       /\ ret[1].error \in {"error sending request", "error decoding response body"}
       /\ Len(sent) = 1

\* a rewrite that selected LM Studio, whose request failed while Ollama was
\* reachable, and that returned the error
C15_Witness ==
  /\ cmd = "rewrite"
  /\ pc = "returned"
  /\ detected.provider = "LmStudio"
  /\ ollama = "success"
  /\ received = <<>>
  /\ ~ret[1].ok
  /\ Len(sent) = 1

\* the outcomes with which a probe fails
ProbeFailures == {"http_error", "refused", "timeout"}

\* C16: a probe that fails in any way makes detection go on to the next
\* candidate: detection returns the 'no provider' error exactly when both
\* probes failed, and returns Ollama with Ollama's base URL when the LM Studio
\* probe failed and the Ollama probe succeeded.
C16_ProbeFailuresAreAbsence ==
  /\ (Len(probes) >= 1 /\ probes[1].outcome \in ProbeFailures) =>
        (pc = "probe_ollama" \/ Len(probes) = 2)
  /\ Len(probes) = 2 => probes[1].outcome \in ProbeFailures
  /\ detected # NotDetected =>
       /\ detected.error = "No LLM server found. Install Ollama or LM Studio."
            <=> (Len(probes) = 2 /\ \A i \in 1..2 : probes[i].outcome \in ProbeFailures)
       /\ ~detected.ok <=> (Len(probes) = 2 /\ \A i \in 1..2 : probes[i].outcome \in ProbeFailures)
       /\ (Len(probes) = 2 /\ probes[2].outcome = "success") =>
            /\ detected.ok
            /\ detected.provider = "Ollama"
            /\ detected.base_url = "http://127.0.0.1:11434"
  /\ (detected = NotDetected /\ cmd # "none") => pc \in {"probe_lmstudio", "probe_ollama"}

\* a call in which the LM Studio probe got a non-success status and the
\* Ollama probe succeeded
C16_Witness ==
  /\ Len(probes) = 2
  /\ probes[1].outcome = "http_error"
  /\ probes[2].outcome = "success"
  /\ detected.provider = "Ollama"

\* the place of a step in the order of a call
Rank(step) ==
  CASE step = "probe_lmstudio" -> 1
    [] step = "probe_ollama" -> 2
    [] step = "detect_done" -> 3
    [] step = "build_prompt" -> 4
    [] step = "send" -> 5
    [] step = "receive" -> 6
    [] step = "parse" -> 7
    [] step = "log_event" -> 8
    [] step = "return" -> 9

StepsTaken == { steps[i] : i \in 1..Len(steps) }

\* C17: the steps of a call are taken in one order: the LM Studio probe, the
\* Ollama probe (only after the first has completed and failed), the end of
\* detection, the prompt, the completion request, the response, its parsing;
\* a probe is awaited alone and no request is sent before detection is done.
C17_StepsInFixedOrder ==
  /\ \A i \in 1..Len(steps) : \A j \in 1..Len(steps) :
       i < j => Rank(steps[i]) < Rank(steps[j])
  /\ steps # <<>> => steps[1] = "probe_lmstudio"
  /\ pc = "probe_lmstudio" => (probes = <<>> /\ "probe_ollama" \notin StepsTaken)
  /\ "probe_ollama" \in StepsTaken =>
       (Len(probes) >= 1 /\ probes[1].outcome # "success")
  /\ pc = "probe_ollama" => (Len(probes) = 1 /\ sent = <<>>)
  /\ "build_prompt" \in StepsTaken => ("detect_done" \in StepsTaken /\ detected.ok)
  /\ sent # <<>> <=> "send" \in StepsTaken
  /\ "send" \in StepsTaken => "build_prompt" \in StepsTaken
  /\ received # <<>> <=> "receive" \in StepsTaken
  /\ "receive" \in StepsTaken => "send" \in StepsTaken
  /\ "parse" \in StepsTaken <=> "receive" \in StepsTaken

\* a rewrite that went through both probes, the request, the response and
\* its parsing
C17_Witness ==
  /\ cmd = "rewrite"
  /\ pc = "returned"
  /\ steps = <<"probe_lmstudio", "probe_ollama", "detect_done", "build_prompt", "send",
               "receive", "parse", "log_event", "return">>

\* C18: the step in which a rewrite_text call returns, in success or in
\* failure, spawns one audit thread for a 'rewrite' event with the request's
\* mode, the length of its text in bytes and success true exactly when the
\* returned value is Ok; no other step of the call spawns one; the returned
\* value is the outcome of rewrite.
C18_OneRewriteEventPerCall ==
  [][ /\ (cmd' = "rewrite" /\ pc # "returned" /\ pc' = "returned") =>
           /\ Len(spawned') = Len(spawned) + 1
           /\ SubSeq(spawned', 1, Len(spawned)) = spawned
           /\ LET e == spawned'[Len(spawned')].entry
              IN /\ e.event = "rewrite"
                 /\ e.details.mode = request'.mode
                 /\ e.details.text_length = ByteLen(request'.text)
                 /\ e.details.success = ret'[1].ok
           /\ Len(ret') = 1
           /\ ret'[1].ok <=> received' # <<>>
           /\ received' # <<>> =>
                ret'[1].value = <<RewriteResult(received'[1])>>
           /\ ~detected'.ok => ret'[1].error = detected'.error
      /\ (cmd' = "rewrite" /\ ~(pc # "returned" /\ pc' = "returned")) =>
           Len(spawned') <= Len(spawned) ]_vars

\* a rewrite of a two-byte text that returned a transport error and left its
\* event with the spawned thread
C18_Witness ==
  /\ cmd = "rewrite"
  /\ pc = "returned"
  /\ request.text = <<E_ACUTE>>
  /\ ret[1].error = "error sending request"
  /\ spawned # <<>>
  /\ spawned[Len(spawned)].entry.event = "rewrite"
  /\ spawned[Len(spawned)].entry.details.text_length = 2
  /\ ~spawned[Len(spawned)].entry.details.success

\* C19 as stated: no step of an audit thread changes what a command returns,
\* a command returns while its audit thread is still to write, and every line
\* of the log that has been ended holds exactly one event.
C19_AuditDetachedOneLinePerEvent ==
  /\ [][ spawned' # spawned /\ Len(spawned') <= Len(spawned) => UNCHANGED callVars ]_vars
  /\ [](\A k \in 1..(Len(auditLog) - 1) : Len(auditLog[k]) = 1)

\* C20: every call returns: a command that has been invoked reaches its
\* return, through at most two probes and at most one completion request.
C20_EveryCallReturns ==
  /\ [](Len(probes) <= 2 /\ Len(sent) <= 1)
  /\ (cmd # "none") ~> (pc = "returned")

\* a rewrite that returned an error although neither server ever answered
\* after LM Studio's probe response: the request timed out
C20_Witness ==
  /\ cmd = "rewrite"
  /\ pc = "returned"
  /\ lmstudio = "timeout"
  /\ ollama = "timeout"
  /\ Len(sent) = 1
  /\ ret[1].error = "error sending request"

\* ------------------------------------------------------------------------
\* Claims about the status records and the request's address (SpecCalls)
\* ------------------------------------------------------------------------
\* the three records status can return
StatusLmStudio == [available |-> TRUE, provider |-> "LM Studio", model |-> "default"]
StatusOllama == [available |-> TRUE, provider |-> "Ollama", model |-> "qwen2.5:3b"]
StatusNone == [available |-> FALSE, provider |-> "none", model |-> ""]

\* the events of the status calls whose audit threads are spawned
StatusEventsSpawned ==
  { spawned[i].entry : i \in { j \in 1..Len(spawned) :
                                  spawned[j].entry.event = "llm_status_check" } }

\* C21: whatever calls came before and however the servers changed, a status
\* call returns one of three records, decided by the probes of that call
\* alone: LM Studio's when its probe succeeded, else Ollama's when its probe
\* succeeded, else the unavailable one; available is true exactly when
\* detection succeeded and the model is the reported provider's default.
C21_StatusFromThisCallsProbes ==
  (cmd = "status" /\ pc = "returned") =>
    LET status == ret[1].value[1]
    IN /\ ret[1].ok
       /\ status \in {StatusLmStudio, StatusOllama, StatusNone}
       /\ status.available <=> detected.ok
       /\ Len(probes) \in {1, 2}
       /\ probes[1].target.base = "http://127.0.0.1:1234"
       /\ probes[1].outcome = "success" => (Len(probes) = 1 /\ status = StatusLmStudio)
       /\ probes[1].outcome # "success" =>
            /\ Len(probes) = 2
            /\ probes[2].target.base = "http://127.0.0.1:11434"
            /\ probes[2].outcome = "success" => status = StatusOllama
            /\ probes[2].outcome # "success" => status = StatusNone

\* a status call that returned Ollama after an earlier status call had
\* reported LM Studio
C21_Witness ==
  /\ cmd = "status"
  /\ pc = "returned"
  /\ ret[1].value[1] = StatusOllama
  /\ \E e \in StatusEventsSpawned : e.details.provider = "LM Studio"

\* C22: every completion request of a call goes to /v1/chat/completions under
\* the base URL detection returned in that call and names that provider's
\* default model; the provider addressed is one whose probe succeeded in the
\* call, and URL and model belong to the same provider.
C22_RequestMatchesDetection ==
  \A k \in 1..Len(sent) :
    /\ cmd = "rewrite"
    /\ detected.ok
    /\ sent[k].url.path = "/v1/chat/completions"
    /\ sent[k].url.base = detected.base_url
    /\ \/ /\ detected.provider = "LmStudio"
          /\ sent[k].url.base = "http://127.0.0.1:1234"
          /\ sent[k].model = "default"
          /\ Len(probes) = 1
          /\ probes[1].outcome = "success"
       \/ /\ detected.provider = "Ollama"
          /\ sent[k].url.base = "http://127.0.0.1:11434"
          /\ sent[k].model = "qwen2.5:3b"
          /\ Len(probes) = 2
          /\ probes[1].outcome # "success"
          /\ probes[2].outcome = "success"

\* a request sent to Ollama in a call whose LM Studio probe failed, LM Studio
\* having come up since
C22_Witness ==
  /\ cmd = "rewrite"
  /\ pc = "post"
  /\ Len(sent) = 1
  /\ detected.provider = "Ollama"
  /\ probes[1].outcome = "refused"
  /\ lmstudio = "success"
====
